---- MODULE Spec2Model ----
(***************************************************************************)
(* A model of src/src/App.tsx, the Bezier playground component: its React  *)
(* state (t, order, points, draggingIndex), its two memoised derived       *)
(* values (curvePoints, intermediatePoints), its mount/order effect and    *)
(* its event handlers, plus the two pure computations (the recursive       *)
(* calculateBezierPoint and the iterative intermediatePoints loop) run     *)
(* step by step on inputs drawn from bounded sets.                         *)
(*                                                                         *)
(* Numbers.  Coordinates are JavaScript doubles in the source.  Here a     *)
(* coordinate is an integer count of 1/Scale logical units and every       *)
(* arithmetic result is rounded down to that grid, as a double is rounded  *)
(* to its own grid.  A parameter t is the exact fraction num/den.          *)
(* Math.sin is replaced by Bhaskara's rational approximation, the only     *)
(* place where the model computes something else than the source.          *)
(***************************************************************************)
EXTENDS Integers, Sequences, FiniteSets

VARIABLES
    t,              \* useState(0), line 11: the slider parameter, a fraction
    order,          \* useState(3), line 12: a JS number, possibly NaN
    points,         \* useState<Point[]>([]), line 13
    draggingIndex,  \* useState<number | null>(null), line 14
    curveDeps,      \* the points array the curvePoints memo was computed from
    levelsDeps,     \* the [points, t] the intermediatePoints memo was computed from
    curveRan,       \* whether the latest event ran the curvePoints callback
    effectPending,  \* TRUE until the mount run of the useEffect of line 18
    fn              \* the pure-function runs: inputs, call frame, loop state

vars == <<t, order, points, draggingIndex, curveDeps, levelsDeps, curveRan,
          effectPending, fn>>

appVars == <<t, order, points, draggingIndex, curveDeps, levelsDeps, curveRan,
             effectPending>>

----------------------------------------------------------------------------
(* Bounds of the model *)

\* coordinates are counted in 1/Scale logical units
Scale == 10
\* the pointer presses markers whose level and index are at most MaxMarker
MaxMarker == 2
\* the pure functions are run on sequences of at most MaxLen points
MaxLen == 3
\* a JS engine's call stack holds this many calculateBezierPoint frames
StackLimit == 6

(* Constants of the program *)

MIN_ORDER == 1
MAX_ORDER == 100
INITIAL_ORDER == 3
RESOLUTION == 100
CANVAS_WIDTH == 800
CANVAS_HEIGHT == 400

----------------------------------------------------------------------------
(* JavaScript values *)

\* a JS number that is an integer, and the JS number NaN
Num(n) == [nan |-> FALSE, v |-> n]
NaN == [nan |-> TRUE, v |-> 0]

\* null and a non-null index, for useState<number | null>
null == <<>>
Index(i) == <<i>>

\* Math.min and Math.max of an integer literal and a JS number: NaN if the
\* number is NaN
MathMin(a, n) == IF n.nan THEN NaN ELSE Num(IF a < n.v THEN a ELSE n.v)
MathMax(a, n) == IF n.nan THEN NaN ELSE Num(IF a > n.v THEN a ELSE n.v)

\* Clamp that stores the coordinate as it comes
Clamp_None(lo, hi, v) == v

\* Math.max(lo, Math.min(hi, v)) on a coordinate (lines 71-72)
Clamp(lo, hi, v) ==
    LET m == IF hi < v THEN hi ELSE v
    IN  IF lo > m THEN lo ELSE m

\* ToLength of the { length: n } handed to Array.from: NaN and negatives give 0
ToLength(n) == IF n.nan \/ n.v < 0 THEN 0 ELSE n.v

\* the fraction num/den
Frac(num, den) == [num |-> num, den |-> den]

Point(x, y) == [x |-> x, y |-> y]

----------------------------------------------------------------------------
(* The layout of the effect, lines 20-24 *)

\* SafeOrder without the lower clamp
SafeOrder_NoLowerClamp(o) == MathMin(MAX_ORDER, o)

\* SafeOrder without the upper clamp
SafeOrder_NoUpperClamp(o) == MathMax(MIN_ORDER, o)

\* Math.max(1, Math.min(100, order)), line 20
SafeOrder(o) == MathMax(MIN_ORDER, MathMin(MAX_ORDER, o))

\* safeOrder + 1, the length handed to Array.from, line 21
PlusOne(n) == IF n.nan THEN NaN ELSE Num(n.v + 1)

\* 50 + (i * 700) / safeOrder, line 22
LayoutX(i, so) == 50 * Scale + (i * 700 * Scale) \div so

\* Math.sin((i * Math.PI) / safeOrder) * 150, line 23, with
\* sin(pi*i/n) taken as 16 i (n-i) / (5 n^2 - 4 i (n-i))
SinTimes150(i, so) ==
    (150 * Scale * 16 * i * (so - i)) \div (5 * so * so - 4 * i * (so - i))

\* 200 - Math.sin(...) * 150, line 23
LayoutY(i, so) == 200 * Scale - SinTimes150(i, so)

\* Array.from({ length: safeOrder + 1 }, (_, i) => ...), lines 21-24;
\* element k of the sequence is the array's element k-1
NewPoints(so) ==
    [k \in 1..ToLength(PlusOne(so)) |->
        Point(LayoutX(k - 1, so.v), LayoutY(k - 1, so.v))]

----------------------------------------------------------------------------
(* De Casteljau, lines 31-43 and 84-102 *)

\* BezierStep with the two weights exchanged
BezierStep_SwappedWeights(tt, controlPoints) ==
    [i \in 1..(Len(controlPoints) - 1) |->
        Point((tt.num * controlPoints[i].x
                    + (tt.den - tt.num) * controlPoints[i + 1].x) \div tt.den,
              (tt.num * controlPoints[i].y
                    + (tt.den - tt.num) * controlPoints[i + 1].y) \div tt.den)]

\* the for loop of lines 34-40: one point per adjacent pair
BezierStep(tt, controlPoints) ==
    [i \in 1..(Len(controlPoints) - 1) |->
        Point(((tt.den - tt.num) * controlPoints[i].x
                    + tt.num * controlPoints[i + 1].x) \div tt.den,
              ((tt.den - tt.num) * controlPoints[i].y
                    + tt.num * controlPoints[i + 1].y) \div tt.den)]

\* calculateBezierPoint, lines 31-43; only applied to a non-empty sequence
\* (on an empty one the recursion never ends: see BezierCall/BezierFrame)
RECURSIVE calculateBezierPoint(_, _)
calculateBezierPoint(tt, controlPoints) ==
    IF Len(controlPoints) = 1
    THEN controlPoints[1]
    ELSE calculateBezierPoint(tt, BezierStep(tt, controlPoints))

\* the number of calls calculateBezierPoint makes to itself below a call on
\* an array of length points: none on one point (line 32), and otherwise the
\* call of line 42 on newPoints, which the for loop of line 34 has given
\* length - 1 points.  Only applied to length >= 1, as calculateBezierPoint.
RECURSIVE RecursionDepth(_)
RecursionDepth(length) ==
    IF length = 1
    THEN 0
    ELSE 1 + RecursionDepth(length - 1)

\* array.length, read off the array's index set
Length(array) == Cardinality(DOMAIN array)

\* LevelStep with the two weights exchanged
LevelStep_SwappedWeights(tt, currentPoints) ==
    [i \in 1..(Length(currentPoints) - 1) |->
        Point((tt.num * currentPoints[i].x
                    + (tt.den - tt.num) * currentPoints[i + 1].x) \div tt.den,
              (tt.num * currentPoints[i].y
                    + (tt.den - tt.num) * currentPoints[i + 1].y) \div tt.den)]

\* the for loop of lines 89-96
LevelStep(tt, currentPoints) ==
    [i \in 1..(Length(currentPoints) - 1) |->
        Point(((tt.den - tt.num) * currentPoints[i].x
                    + tt.num * currentPoints[i + 1].x) \div tt.den,
              ((tt.den - tt.num) * currentPoints[i].y
                    + tt.num * currentPoints[i + 1].y) \div tt.den)]

\* LoopStart with allPoints starting empty
LoopStart_NoLevels(pts) == [currentPoints |-> pts, allPoints |-> <<>>]

\* the loop state before the while loop, lines 85-86
LoopStart(pts) == [currentPoints |-> pts, allPoints |-> <<pts>>]

\* LoopTest that lets the loop run until no point is left
LoopTest_UntilEmpty(loop) == Length(loop.currentPoints) > 0

\* the test of the while loop, line 88
LoopTest(loop) == Length(loop.currentPoints) > 1

\* the body of the while loop, lines 89-98
LoopBody(tt, loop) ==
    LET newPoints == LevelStep(tt, loop.currentPoints)
    IN  [currentPoints |-> newPoints,
         allPoints |-> Append(loop.allPoints, newPoints)]

\* one iteration when the test holds, and the state as it is once the loop
\* has been left
LoopIteration(tt, loop) ==
    IF LoopTest(loop) THEN LoopBody(tt, loop) ELSE loop

\* n times LoopIteration, evaluated by halving n; once the loop has been left
\* the remaining iterations change nothing
RECURSIVE Iterate(_, _, _)
Iterate(tt, loop, n) ==
    IF n = 0 THEN loop
    ELSE IF n = 1 THEN LoopIteration(tt, loop)
    ELSE LET half == Iterate(tt, loop, n \div 2)
         IN  IF ~LoopTest(half)
             THEN half
             ELSE Iterate(tt, half, n - n \div 2)

\* the callback of the intermediatePoints memo, lines 84-102.  The loop
\* shortens currentPoints by one point per iteration, so it has been left
\* after Len(pts) iterations.
IntermediatePointsOf(pts, tt) ==
    Iterate(tt, LoopStart(pts), Length(pts)).allPoints

\* CurvePointsOf with the samples taken one place further on
CurvePointsOf_OffByOne(pts) ==
    IF Len(pts) = 0
    THEN <<>>
    ELSE [k \in 1..RESOLUTION |->
            calculateBezierPoint(Frac(k, RESOLUTION), pts)]

\* the callback of the curvePoints memo, lines 46-52; element k is the
\* array's element k-1, computed at currentT = (k-1) / 99
CurvePointsOf(pts) ==
    IF Len(pts) = 0
    THEN <<>>
    ELSE [k \in 1..RESOLUTION |->
            calculateBezierPoint(Frac(k - 1, RESOLUTION - 1), pts)]

\* the memoised values of the current render
curvePoints == CurvePointsOf(curveDeps)
intermediatePoints == IntermediatePointsOf(levelsDeps.points, levelsDeps.t)

----------------------------------------------------------------------------
(* The component: renders, the effect and the event handlers *)

\* what the environment supplies
OrderInputs == {NaN} \cup {Num(n) : n \in {-1, 0, 1, 2, 3, 100, 101}}
TInputs == {Frac(k, 100) : k \in {0, 50}}
SvgPointInputs ==
    {Point(300 * Scale, 250 * Scale), Point(-20 * Scale, 450 * Scale),
     Point(900 * Scale, -5 * Scale)}
CtmInputs == {"matrix", "null"}

\* CurveMemoRuns with t among the dependencies
CurveMemoRuns_WithT(pointsReplaced, tChanged) == pointsReplaced \/ tChanged

\* useMemo(..., [points]), line 52: the callback runs when the points array
\* of this render is another array than that of the previous render
CurveMemoRuns(pointsReplaced, tChanged) == pointsReplaced

\* useMemo(..., [points, t]), line 102
LevelsMemoRuns(pointsReplaced, tChanged) == pointsReplaced \/ tChanged

\* the renders an event causes, with the new state newPoints, newT
Render(newPoints, newT, pointsReplaced) ==
    LET tChanged == newT # t
        curveRuns == CurveMemoRuns(pointsReplaced, tChanged)
        levelsRun == LevelsMemoRuns(pointsReplaced, tChanged)
    IN  /\ curveDeps' = IF curveRuns THEN newPoints ELSE curveDeps
        /\ levelsDeps' = IF levelsRun
                         THEN [points |-> newPoints, t |-> newT]
                         ELSE levelsDeps
        /\ curveRan' = curveRuns

\* the body of the effect, lines 19-27, run with order o: it calls setPoints
\* with a new array unless that array is empty
Effect(o) ==
    LET safeOrder == SafeOrder(o)
        newPoints == NewPoints(safeOrder)
    IN  IF Len(newPoints) > 0
        THEN /\ points' = newPoints
             /\ Render(newPoints, t, TRUE)
        ELSE /\ points' = points
             /\ Render(points, t, FALSE)

\* the first run of the effect, after the first render
MountEffect ==
    /\ effectPending
    /\ effectPending' = FALSE
    /\ Effect(order)
    /\ UNCHANGED <<t, order, draggingIndex, fn>>

\* onChange of the order input, line 206, with n = parseInt(e.target.value);
\* a state equal to the current one (Object.is) schedules nothing, and the
\* effect runs after a render in which order has changed, line 28
SetOrder(n) ==
    /\ ~effectPending
    /\ order' = n
    /\ IF n = order
       THEN points' = points /\ Render(points, t, FALSE)
       ELSE Effect(n)
    /\ UNCHANGED <<t, draggingIndex, effectPending, fn>>

\* onValueChange of the slider, lines 180-183
SetT(newT) ==
    /\ ~effectPending
    /\ t' = newT
    /\ Render(points, newT, FALSE)
    /\ UNCHANGED <<order, points, draggingIndex, effectPending, fn>>

\* handleMouseDown, lines 55-57
handleMouseDown(index) == draggingIndex' = Index(index)

\* CircleMouseDown without the test of the level
CircleMouseDown_AnyLevel(setIndex, pointIndex) ==
    /\ handleMouseDown(pointIndex)
    /\ Render(points, t, FALSE)
    /\ UNCHANGED <<t, order, points, effectPending, fn>>

\* onMouseDown of the circle pointIndex of level setIndex, line 162:
\* setIndex === 0 && handleMouseDown(pointIndex)
CircleMouseDown(setIndex, pointIndex) ==
    /\ IF setIndex = 0
       THEN handleMouseDown(pointIndex)
       ELSE draggingIndex' = draggingIndex
    /\ Render(points, t, FALSE)
    /\ UNCHANGED <<t, order, points, effectPending, fn>>

\* a pointer-down on one of the circles drawn, lines 142-165: one circle per
\* point of every level of intermediatePoints
MouseDown ==
    /\ ~effectPending
    /\ \E levels \in {intermediatePoints} :
          \E setIndex \in 0..MaxMarker, pointIndex \in 0..MaxMarker :
              /\ setIndex < Length(levels)
              /\ pointIndex < Length(levels[setIndex + 1])
              /\ CircleMouseDown(setIndex, pointIndex)

\* MapPoints with the index compared one place off
MapPoints_OffByOne(prev, index, x, y) ==
    [k \in 1..Len(prev) |-> IF k = index THEN Point(x, y) ELSE prev[k]]

\* prev.map((p, i) => i === draggingIndex ? { x, y } : p), line 75
MapPoints(prev, index, x, y) ==
    [k \in 1..Len(prev) |-> IF k - 1 = index THEN Point(x, y) ELSE prev[k]]

\* handleMouseMove without the return of line 68 on a missing transform
handleMouseMove_NoCtmTest(svgPoint, ctm) ==
    /\ ~effectPending
    /\ IF draggingIndex = null
       THEN /\ points' = points
            /\ Render(points, t, FALSE)
       ELSE LET x == Clamp(0, CANVAS_WIDTH * Scale, svgPoint.x)
                y == Clamp(0, CANVAS_HEIGHT * Scale, svgPoint.y)
                newPoints == MapPoints(points, draggingIndex[1], x, y)
            IN  /\ points' = newPoints
                /\ Render(newPoints, t, TRUE)
    /\ UNCHANGED <<t, order, draggingIndex, effectPending, fn>>

\* handleMouseMove, lines 59-77; svgPoint is the pointer position in the
\* coordinates of the svg, ctm what getScreenCTM() returns.  The svg element
\* is attached when a handler runs, so svgRef.current is never null.
handleMouseMove(svgPoint, ctm) ==
    /\ ~effectPending
    /\ IF draggingIndex = null \/ ctm = "null"
       THEN /\ points' = points
            /\ Render(points, t, FALSE)
       ELSE LET x == Clamp(0, CANVAS_WIDTH * Scale, svgPoint.x)
                y == Clamp(0, CANVAS_HEIGHT * Scale, svgPoint.y)
                newPoints == MapPoints(points, draggingIndex[1], x, y)
            IN  /\ points' = newPoints
                /\ Render(newPoints, t, TRUE)
    /\ UNCHANGED <<t, order, draggingIndex, effectPending, fn>>

\* handleMouseUp, lines 79-81, bound to onMouseUp and to onMouseLeave
handleMouseUp ==
    /\ ~effectPending
    /\ draggingIndex' = null
    /\ Render(points, t, FALSE)
    /\ UNCHANGED <<t, order, points, effectPending, fn>>

\* a pointer-leave that no handler is bound to
MouseLeave_Ignored ==
    /\ ~effectPending
    /\ draggingIndex' = draggingIndex
    /\ Render(points, t, FALSE)
    /\ UNCHANGED <<t, order, points, effectPending, fn>>

\* onMouseUp={handleMouseUp}, line 130
MouseUp == handleMouseUp
\* onMouseLeave={handleMouseUp}, line 131
MouseLeave == handleMouseUp

\* no pure-function run is going on
FnIdle == [state |-> "idle"]

Init ==
    /\ t = Frac(0, 100)
    /\ order = Num(INITIAL_ORDER)
    /\ points = <<>>
    /\ draggingIndex = null
    /\ curveDeps = <<>>
    /\ levelsDeps = [points |-> <<>>, t |-> Frac(0, 100)]
    /\ curveRan = TRUE
    /\ effectPending = TRUE
    /\ fn = FnIdle

Next ==
    \/ MountEffect
    \/ \E n \in OrderInputs : SetOrder(n)
    \/ \E newT \in TInputs : SetT(newT)
    \/ MouseDown
    \/ \E svgPoint \in SvgPointInputs, ctm \in CtmInputs :
          handleMouseMove(svgPoint, ctm)
    \/ MouseUp
    \/ MouseLeave

Spec == Init /\ [][Next]_vars

----------------------------------------------------------------------------
(* The two pure computations, run step by step on inputs of their own *)

\* the inputs the pure functions are run on
FnTInputs ==
    {Frac(0, 99), Frac(33, 99), Frac(99, 99), Frac(25, 100), Frac(100, 100)}
FnPointPool ==
    {Point(50 * Scale, 200 * Scale), Point(300 * Scale, 250 * Scale),
     Point(800 * Scale, 0)}
RECURSIVE SeqsOfLen(_)
SeqsOfLen(n) ==
    IF n = 0 THEN {<<>>}
    ELSE {Append(s, p) : s \in SeqsOfLen(n - 1), p \in FnPointPool}
FnPointInputs == UNION {SeqsOfLen(n) : n \in 0..MaxLen}

\* a run of both functions on (tt, pts), before either has been called
FnStart(tt, pts) ==
    [state |-> "run", t |-> tt, points |-> pts,
     call |-> "none", controlPoints |-> <<>>, depth |-> 0, result |-> <<>>,
     levels |-> "none", loop |-> LoopStart(<<>>),
     sampled |-> "none", sample |-> <<>>]

\* calculateBezierPoint(t, points) is called: its first frame, line 31
BezierCall ==
    /\ fn.state = "run" /\ fn.call = "none"
    /\ fn' = [fn EXCEPT !.call = "running", !.controlPoints = fn.points,
                        !.depth = 1]
    /\ UNCHANGED appVars

\* the body of the current frame, lines 32-42: it returns its only point,
\* which every frame below it returns in turn (line 42), or it calls itself
\* on the shorter sequence; a call the engine's stack has no room for throws
\* RangeError (Maximum call stack size exceeded)
BezierFrame ==
    /\ fn.state = "run" /\ fn.call = "running"
    /\ IF Len(fn.controlPoints) = 1
       THEN fn' = [fn EXCEPT !.call = "returned",
                             !.result = fn.controlPoints[1]]
       ELSE IF fn.depth = StackLimit
       THEN fn' = [fn EXCEPT !.call = "RangeError"]
       ELSE fn' = [fn EXCEPT !.controlPoints = BezierStep(fn.t, fn.controlPoints),
                             !.depth = fn.depth + 1]
    /\ UNCHANGED appVars

\* the intermediatePoints callback is entered, lines 85-86
LevelsCall ==
    /\ fn.state = "run" /\ fn.levels = "none"
    /\ fn' = [fn EXCEPT !.levels = "running", !.loop = LoopStart(fn.points)]
    /\ UNCHANGED appVars

\* one iteration of the while loop, lines 88-99
LevelsIteration ==
    /\ fn.state = "run" /\ fn.levels = "running"
    /\ LoopTest(fn.loop)
    /\ fn' = [fn EXCEPT !.loop = LoopBody(fn.t, fn.loop)]
    /\ UNCHANGED appVars

\* the loop is left and allPoints returned, line 101
LevelsReturn ==
    /\ fn.state = "run" /\ fn.levels = "running"
    /\ ~LoopTest(fn.loop)
    /\ fn' = [fn EXCEPT !.levels = "returned"]
    /\ UNCHANGED appVars

\* the callback of the curvePoints memo runs on the points, lines 46-52
CurvePointsCall ==
    /\ fn.state = "run" /\ fn.sampled = "none"
    /\ fn' = [fn EXCEPT !.sampled = "returned",
                        !.sample = CurvePointsOf(fn.points)]
    /\ UNCHANGED appVars

FnInit ==
    /\ t = Frac(0, 100)
    /\ order = Num(INITIAL_ORDER)
    /\ points = <<>>
    /\ draggingIndex = null
    /\ curveDeps = <<>>
    /\ levelsDeps = [points |-> <<>>, t |-> Frac(0, 100)]
    /\ curveRan = TRUE
    /\ effectPending = TRUE
    /\ \E tt \in FnTInputs, pts \in FnPointInputs : fn = FnStart(tt, pts)

FnNext ==
    \/ BezierCall
    \/ BezierFrame
    \/ LevelsCall
    \/ LevelsIteration
    \/ LevelsReturn
    \/ CurvePointsCall

FnSpec == FnInit /\ [][FnNext]_vars

----------------------------------------------------------------------------
(* Properties of the component *)

\* a pointer-move to svgPoint while a drag is active on a valid index and the
\* transform is available
DragMove(svgPoint) ==
    /\ draggingIndex # null
    /\ draggingIndex[1] < Len(points)
    /\ handleMouseMove(svgPoint, "matrix")

\* C1: a pointer-move to any position p, inside or outside the canvas, during
\* a drag on a valid index i replaces only the point at index i: the other
\* points, the length, the order and the drag state stay as they were, and the
\* stored point has x = p.x clamped to [0,800] and y = p.y clamped to [0,400].
C1_MoveReplacesOnlyDragged ==
    [][\A p \in SvgPointInputs :
          DragMove(p) =>
              LET i == draggingIndex[1]
                  cx == IF p.x < 0 THEN 0
                        ELSE IF p.x > 800 * Scale THEN 800 * Scale ELSE p.x
                  cy == IF p.y < 0 THEN 0
                        ELSE IF p.y > 400 * Scale THEN 400 * Scale ELSE p.y
              IN  /\ Len(points') = Len(points)
                  /\ \A k \in 1..Len(points) : k # i + 1 => points'[k] = points[k]
                  /\ points'[i + 1] = [x |-> cx, y |-> cy]
                  /\ order' = order
                  /\ draggingIndex' = draggingIndex
       ]_vars

\* the point at index 1 of the initial four has been dragged to (900,-5),
\* outside the canvas, and is stored as (800,0)
C1_Witness ==
    /\ draggingIndex = Index(1)
    /\ Len(points) = 4
    /\ points[2] = [x |-> 800 * Scale, y |-> 0]
    /\ points[1] = [x |-> 50 * Scale, y |-> 200 * Scale]
    /\ curveRan

\* C2: after an order input n has been processed the sequence has n+1 points
\* when 1 <= n <= 100, 2 points when n < 1 and 101 points when n > 100,
\* whatever the sequence was before.
C2_OrderInputLength ==
    [][\A n \in OrderInputs :
          (~n.nan /\ SetOrder(n)) =>
              Len(points') = IF n.v < 1 THEN 2
                             ELSE IF n.v > 100 THEN 101 ELSE n.v + 1
       ]_vars

\* the order input 101 has been processed and there are 101 points, one of
\* them written by a drag
C2_Witness ==
    /\ order = Num(101)
    /\ Len(points) = 101
    /\ points[1] = [x |-> 300 * Scale, y |-> 250 * Scale]

\* the layout the spec gives for order k: point i at x = 50 + i*700/k and
\* y = 200 - sin(i*pi/k)*150, for i = 0..k
LayoutFor(k) ==
    [j \in 1..(k + 1) |->
        [x |-> 50 * Scale + ((j - 1) * 700 * Scale) \div k,
         y |-> LayoutY(j - 1, k)]]

\* the order in [1,100] that the number n is clamped to
ClampedOrder(n) == IF n < 1 THEN 1 ELSE IF n > 100 THEN 100 ELSE n

\* C3: every order change is an unconditional full replacement: after an
\* order change to newOrder, whatever drags came before, the sequence is the
\* layout of the order in [1,100] that newOrder stands for (newOrder clamped
\* when it is a number), so no position written by a drag survives.  The code
\* does not do this for the entry NaN.
C3_OrderChangeReplacesAll ==
    [][\A n \in OrderInputs :
          (n # order /\ SetOrder(n)) =>
              LET k == IF n.nan THEN Len(points') - 1 ELSE ClampedOrder(n.v)
              IN  k \in 1..100 /\ points' = LayoutFor(k)
       ]_vars

\* C4: in every state in which the curve is drawn the sequence has
\* length = order + 1 with order in [1,100], order being the order state as
\* the layout clamps it.  The code does not keep this for the entry NaN.
C4_LengthIsOrderPlusOne ==
    Len(curveDeps) > 0 =>
        /\ ~SafeOrder(order).nan
        /\ SafeOrder(order).v \in 1..100
        /\ Len(points) = SafeOrder(order).v + 1
        /\ Len(points) >= 2

\* C5: a NaN or negative order entry is clamped to [1,100]: once it has been
\* processed the order handed to the layout is a number in [1,100] and the
\* control points are the layout for it.  The code does not clamp NaN.
C5_MalformedOrderClamped ==
    [][\A n \in OrderInputs :
          ((n.nan \/ n.v < 0) /\ SetOrder(n)) =>
              /\ ~SafeOrder(order').nan
              /\ SafeOrder(order').v \in 1..100
              /\ points' = LayoutFor(SafeOrder(order').v)
       ]_vars

----------------------------------------------------------------------------
(* Properties of the two pure computations *)

\* C6: calculateBezierPoint called with an empty sequence does not crash or
\* diverge: the call ends in its first frame with the outcome InvalidInput,
\* never deeper and never with a RangeError.  The code recurses on the empty
\* sequence until the stack is exhausted.
C6_EmptyInputInvalidInput ==
    (fn.state = "run" /\ Len(fn.points) = 0 /\ fn.call # "none") =>
        /\ fn.call \in {"running", "InvalidInput"}
        /\ fn.depth <= 1

\* C7: for every t in [0,1] and every non-empty sequence, the point the
\* recursive calculateBezierPoint returns is the single point of the last
\* level of the levels the while loop of intermediatePoints returns; the
\* operators of the component's model compute the same two values.
C7_EvaluateIsLastLevel ==
    (/\ fn.state = "run"
     /\ Len(fn.points) >= 1
     /\ fn.call = "returned"
     /\ fn.levels = "returned") =>
        LET levels == fn.loop.allPoints
            final == levels[Len(levels)]
        IN  /\ Len(final) = 1
            /\ fn.result = final[1]
            /\ calculateBezierPoint(fn.t, fn.points) = final[1]
            /\ IntermediatePointsOf(fn.points, fn.t) = levels

\* both functions have returned on three points, not all the same, at
\* t = 33/99
C7_Witness ==
    /\ fn.state = "run"
    /\ fn.call = "returned"
    /\ fn.levels = "returned"
    /\ Len(fn.points) = 3
    /\ fn.points[1] # fn.points[3]
    /\ fn.t = Frac(33, 99)
    /\ Len(fn.loop.allPoints) = 3

\* the levels returned for the sequence pts have the shape of a pyramid of
\* Len(pts) levels: level 0 is pts and level k has Len(pts) - k points
Pyramid(levels, pts) ==
    /\ Len(levels) = Len(pts)
    /\ Len(levels) >= 1 => levels[1] = pts
    /\ \A k \in 1..Len(levels) : Len(levels[k]) = Len(pts) - (k - 1)

\* C8 as stated: for every t and every sequence, the empty one included,
\* the levels returned are Len(points) levels, level 0 the input and level k
\* of Len(points) - k points.
C8_LevelsCount_AnySequence ==
    (fn.state = "run" /\ fn.levels = "returned") =>
        Pyramid(fn.loop.allPoints, fn.points)

\* C8: for every t and every non-empty sequence the levels returned are
\* Len(points) levels, level 0 the input and level k of Len(points) - k
\* points, so that the last level has one point; for the empty sequence one
\* level is returned, the empty input itself.
C8_LevelsCount ==
    (fn.state = "run" /\ fn.levels = "returned") =>
        IF Len(fn.points) >= 1
        THEN /\ Pyramid(fn.loop.allPoints, fn.points)
             /\ Len(fn.loop.allPoints[Len(fn.points)]) = 1
        ELSE fn.loop.allPoints = << <<>> >>

\* the loop has returned the three levels of a three-point sequence
C8_Witness ==
    /\ fn.state = "run"
    /\ fn.levels = "returned"
    /\ Len(fn.points) = 3
    /\ Len(fn.loop.allPoints) = 3
    /\ Len(fn.loop.allPoints[2]) = 2
    /\ fn.t = Frac(25, 100)

\* C9: for every sequence of one point or more, calculateBezierPoint at t = 0
\* returns the first point and at t = 1 the last point.
C9_Endpoints ==
    (fn.state = "run" /\ fn.call = "returned" /\ Len(fn.points) >= 1) =>
        /\ fn.t.num = 0 => fn.result = fn.points[1]
        /\ fn.t.num = fn.t.den => fn.result = fn.points[Len(fn.points)]

\* calculateBezierPoint has returned at t = 99/99 on three points whose first
\* and last differ
C9_Witness ==
    /\ fn.state = "run"
    /\ fn.call = "returned"
    /\ fn.t = Frac(99, 99)
    /\ Len(fn.points) = 3
    /\ fn.points[1] # fn.points[3]
    /\ fn.result = fn.points[3]

\* C11: the sample of a non-empty sequence has exactly 100 points and that
\* of the empty sequence none; element i of the sample is
\* calculateBezierPoint at i/99, so the first element is the value at 0, the
\* first control point, and element 99 the value at 1, the last one.
C11_SampleShape ==
    (fn.state = "run" /\ fn.sampled = "returned") =>
        IF Len(fn.points) = 0
        THEN Len(fn.sample) = 0
        ELSE /\ Len(fn.sample) = 100
             /\ \A i \in 0..99 :
                   fn.sample[i + 1] = calculateBezierPoint(Frac(i, 99), fn.points)
             /\ fn.sample[1] = calculateBezierPoint(Frac(0, 99), fn.points)
             /\ fn.sample[1] = fn.points[1]
             /\ fn.sample[100] = calculateBezierPoint(Frac(99, 99), fn.points)
             /\ fn.sample[100] = fn.points[Len(fn.points)]

\* three points, the first and the last apart, have been sampled
C11_Witness ==
    /\ fn.state = "run"
    /\ fn.sampled = "returned"
    /\ Len(fn.points) = 3
    /\ fn.points[1] # fn.points[3]
    /\ Len(fn.sample) = 100
    /\ fn.sample[1] # fn.sample[100]

\* C15: for a sequence of no point or of one point the levels returned are
\* exactly one level, the input sequence itself: the body of the while loop
\* has not run.
C15_NoReductionBelowTwoPoints ==
    (fn.state = "run" /\ Len(fn.points) <= 1) =>
        /\ fn.levels # "none" =>
              /\ fn.loop.currentPoints = fn.points
              /\ Len(fn.loop.allPoints) = 1
              /\ fn.loop.allPoints[1] = fn.points
        /\ Len(IntermediatePointsOf(fn.points, fn.t)) = 1
        /\ IntermediatePointsOf(fn.points, fn.t)[1] = fn.points

\* the loop has returned on the empty sequence
C15_Witness ==
    /\ fn.state = "run"
    /\ fn.levels = "returned"
    /\ Len(fn.points) = 0
    /\ Len(fn.loop.allPoints) = 1

----------------------------------------------------------------------------
(* The memoised curve *)

\* a step that hands a new array to setPoints: the effect with a layout that
\* is not empty (on mount or after an order change), or a pointer-move during
\* a drag with the transform available
ReplacesPoints ==
    \/ MountEffect
    \/ \E n \in OrderInputs :
          n # order /\ ToLength(PlusOne(SafeOrder(n))) > 0 /\ SetOrder(n)
    \/ /\ draggingIndex # null
       /\ \E p \in SvgPointInputs : handleMouseMove(p, "matrix")

\* C10: the callback of the curvePoints memo runs in exactly the steps that
\* replace the control points (a drag move or an order change, or the first
\* layout) and never because t changes: a step that changes t leaves the
\* curve, the control points, the order and the drag state as they were; and
\* in every rendered state the curve is the sample of the current control
\* points, the memo holding the value computed from them.
C10_CurveRecomputedOnReplacement ==
    /\ [][/\ curveRan' <=> ReplacesPoints
          /\ t' # t =>
                /\ ~curveRan'
                /\ UNCHANGED <<curveDeps, points, order, draggingIndex>>
         ]_vars
    /\ [](curveDeps = points)

\* t has been moved to 0.5 after a drag: the last render did not run the
\* callback and the curve is still that of the dragged points
C10_Witness ==
    /\ t = Frac(50, 100)
    /\ levelsDeps.t = Frac(50, 100)
    /\ ~curveRan
    /\ Len(points) = 4
    /\ points[1] = [x |-> 300 * Scale, y |-> 250 * Scale]
    /\ curveDeps = points

----------------------------------------------------------------------------
(* The drag state *)

\* the circle pointIndex of level 0 is drawn in the current render: level 0
\* of intermediatePoints is the points array the memo was computed from
ControlMarkerDrawn(pointIndex) == pointIndex < Len(levelsDeps.points)

\* C12: the drag state becomes Dragging(i) only by a pointer-down on the
\* marker i of level 0, the control points; a pointer-down on a marker of a
\* derived level (1 or higher) leaves the drag state and the control points
\* as they were, in every state and for every t.
C12_DragOnlyFromLevelZero ==
    [][/\ (draggingIndex' # null /\ draggingIndex' # draggingIndex) =>
              \E i \in 0..MaxMarker :
                  /\ i < Len(points)
                  /\ draggingIndex' = <<i>>
                  /\ CircleMouseDown(0, i)
                  /\ ControlMarkerDrawn(i)
       /\ \A setIndex \in 1..MaxMarker, pointIndex \in 0..MaxMarker :
              CircleMouseDown(setIndex, pointIndex) =>
                  UNCHANGED <<draggingIndex, points>>
      ]_vars

\* with t at 0.5 a pointer-down on control point 2 has started a drag
C12_Witness ==
    /\ draggingIndex = <<2>>
    /\ Len(points) = 4
    /\ t = Frac(50, 100)
    /\ levelsDeps.t = Frac(50, 100)

\* C13: from Dragging(i) a pointer-up and a pointer-leave of the svg both
\* lead to Idle and to the same state; and while the state is Idle no
\* pointer-move changes a control point, Idle lasting until a pointer-down on
\* a level-0 marker (no stuck drag).
C13_UpAndLeaveEndDrag ==
    [][/\ draggingIndex # null =>
              /\ MouseUp => draggingIndex' = null
              /\ MouseLeave => draggingIndex' = null
              /\ MouseUp <=> MouseLeave
       /\ draggingIndex = null =>
              /\ (\E p \in SvgPointInputs, ctm \in CtmInputs :
                        handleMouseMove(p, ctm)) => points' = points
              /\ draggingIndex' # null =>
                    \E i \in 0..MaxMarker : CircleMouseDown(0, i)
      ]_vars

\* the drag of control point 2 has ended: the state is Idle, the point is
\* where the drag left it and the last event replaced no point
C13_Witness ==
    /\ draggingIndex = null
    /\ Len(points) = 4
    /\ points[3] = [x |-> 300 * Scale, y |-> 250 * Scale]
    /\ ~curveRan

\* the drag index is not an index of the current control points
DragOutOfRange ==
    IF draggingIndex = null THEN FALSE ELSE draggingIndex[1] >= Len(points)

\* C14: a pointer-move leaves the control points, the order, t and the drag
\* state as they were, and raises nothing, whenever no drag is active, or the
\* drag index is out of range of the current control points, or the
\* transform of the svg is not available.
C14_MoveIsNoOp ==
    [][\A p \in SvgPointInputs, ctm \in CtmInputs :
          (/\ draggingIndex = null \/ DragOutOfRange \/ ctm = "null"
           /\ handleMouseMove(p, ctm)) =>
              UNCHANGED <<points, order, t, draggingIndex>>
      ]_vars

\* a drag of control point 2 is active on a sequence of two points, which
\* a pointer-move has mapped to an array of the same points
C14_Witness ==
    /\ draggingIndex = <<2>>
    /\ Len(points) = 2
    /\ order = Num(1)
    /\ curveRan

----------------------------------------------------------------------------
(* The calls the component makes *)

\* C16: every call of calculateBezierPoint the component makes, on the array
\* the curve is computed from, ends: the array is not empty, the calls nest
\* as deep as the number of control points minus one, and that is at most
\* 100, after any order inputs, those out of range included.
C16_RecursionDepthBounded ==
    IF Len(curveDeps) = 0
    THEN CurvePointsOf(curveDeps) = <<>>
    ELSE /\ Len(curveDeps) >= 1
         /\ RecursionDepth(Len(curveDeps)) = Len(curveDeps) - 1
         /\ RecursionDepth(Len(curveDeps)) <= 100

\* the curve has been computed from the 101 points laid out for the order
\* input 101
C16_Witness ==
    /\ order = Num(101)
    /\ Len(curveDeps) = 101
    /\ curveDeps[1] = [x |-> 50 * Scale, y |-> 200 * Scale]
    /\ curveRan
    /\ draggingIndex = null

----------------------------------------------------------------------------
(* The drag index and the canvas *)

\* C17: in every reachable state in which a drag is active on index i, i is
\* an index of the current control points, 0 <= i < length, also after the
\* order has been changed to a smaller one during the drag.  The code keeps
\* the drag index as it is when the effect replaces the points.
C17_DragIndexValid ==
    draggingIndex # null =>
        /\ 0 <= draggingIndex[1]
        /\ draggingIndex[1] < Len(points)

\* the effect of an order change has laid the points out anew
LayoutStep ==
    \/ MountEffect
    \/ \E n \in OrderInputs : n # order /\ ~n.nan /\ SetOrder(n)

\* the layout of every order in [1,100] lies in [50,750] x [50,200]
LayoutInsideArc ==
    \A so \in 1..100 : \A i \in 0..so :
        /\ 50 * Scale <= LayoutX(i, so) /\ LayoutX(i, so) <= 750 * Scale
        /\ 50 * Scale <= LayoutY(i, so) /\ LayoutY(i, so) <= 200 * Scale

\* C18: in every reachable state, after any order changes and drags, every
\* control point lies inside the canvas, 0 <= x <= 800 and 0 <= y <= 400:
\* the layout places the points with x in [50,750] and y in [50,200], and a
\* drag stores clamped coordinates.
C18_PointsInsideCanvas ==
    /\ [](\A k \in 1..Len(points) :
              /\ 0 <= points[k].x /\ points[k].x <= 800 * Scale
              /\ 0 <= points[k].y /\ points[k].y <= 400 * Scale)
    /\ [][LayoutStep =>
              \A k \in 1..Len(points') :
                  /\ 50 * Scale <= points'[k].x /\ points'[k].x <= 750 * Scale
                  /\ 50 * Scale <= points'[k].y /\ points'[k].y <= 200 * Scale
         ]_vars
    \* a fact of the layout alone, evaluated in the state before the first
    \* layout only
    /\ [](effectPending => LayoutInsideArc)

\* control point 0 has been dragged to (-20,450), below and left of the
\* canvas, and is stored as (0,400)
C18_Witness ==
    /\ Len(points) = 4
    /\ points[1] = [x |-> 0, y |-> 400 * Scale]
    /\ draggingIndex = <<0>>
    /\ curveRan

====
